---- MODULE Spec2Model ----
(***************************************************************************)
(* Model of the scope3 measure service: the in-memory Cache (a map plus a  *)
(* container/heap priority queue guarded by one mutex, with per-write      *)
(* expiry goroutines) and Server.EmissionHandler, which reads the cache    *)
(* per row, fetches the misses in one call and writes the results back.    *)
(*                                                                         *)
(* Time is a discrete monotonic clock (time.Now); a time.Duration is a     *)
(* number of clock units.  A CacheItem pointer is an identifier 1..n, the  *)
(* n-th item ever allocated by SetWithTTL; obj maps it to its fields.      *)
(***************************************************************************)
EXTENDS Integers, Sequences, FiniteSets, Bags, TLC

\* ------------------------------------------------------------------ bounds
MaxTime == 2
MaxWrites == 3
MaxCap == 2
MaxTTL == 1
MaxStores == 2
MaxBatch == 2
MaxResp == 2
MaxSharedBatch == 1

\* ------------------------------------------------------- program constants
\* Config.CacheExpiration, in clock units.
CacheExpiration == 1
MinPriority == 1
MaxPriority == 10

\* ------------------------------------------------------------ value domains
IDs == {"a", "b"}
Dates == {"d1", "d2"}
Priorities == {1, 2}
TTLs == 1..MaxTTL
ItemIds == 1..MaxWrites

\* The keys in play: two dates of one identifier, and a second identifier.
CacheKey ==
    {k \in [InventoryID : IDs, UtcDatetime : Dates] :
        k.InventoryID = "a" \/ k.UtcDatetime = "d1"}
CacheValue == [Emissions : 1..MaxWrites, Priority : Priorities]

NoValue == [Emissions |-> 0, Priority |-> 0]
NoId == 0
NoItem ==
    [key |-> [InventoryID |-> "", UtcDatetime |-> ""], value |-> NoValue,
     expiry |-> 0, index |-> 0, timestamp |-> 0]

Free == "free"

VARIABLES
    now,        \* time.Now()
    cache,      \* the Cache: items, pq, obj (the CacheItems), currSize, maxSize
    mu,         \* Cache.mu: Free, or who is inside the critical section
    tasks,      \* expiry goroutines sleeping or waiting for the mutex
    wr,         \* history: the n-th SetWithTTL call, as requested
    evicted,    \* history: items removed by the capacity loop
    ret,        \* what the last direct Cache.Get returned, and when
    notes,      \* history: the calls of Cache.onEvict, as a bag
    hpc,        \* EmissionHandler: position
    rows,       \* EmissionHandler: reqBody.Rows
    hi,         \* EmissionHandler: index of the row / fetched row in turn
    result,     \* EmissionHandler: result
    cacheMisses,\* EmissionHandler: cacheMisses
    resBody,    \* EmissionHandler: resBody
    status,     \* EmissionHandler: HTTP status written, 0 while none
    respRows,   \* EmissionHandler: the "rows" of the response body
    calls       \* history: cache reads, cache writes, fetches of this request

cvars == <<now, cache, mu, tasks, wr, evicted, ret, notes>>
hvars == <<hpc, rows, hi, result, cacheMisses, resBody, status, respRows, calls>>
vars == <<now, cache, mu, tasks, wr, evicted, ret, notes, hpc, rows, hi, result,
          cacheMisses, resBody, status, respRows, calls>>

\* ------------------------------------------------------------ PriorityQueue
\* Indices are Go's (from 0); pq is a TLA+ sequence (from 1).
At(c, i) == c.obj[c.pq[i + 1]]

LessLowFirst(c, i, j) ==
    IF At(c, i).value.Priority = At(c, j).value.Priority
    THEN At(c, i).timestamp < At(c, j).timestamp
    ELSE At(c, i).value.Priority < At(c, j).value.Priority

LessOldestFirst(c, i, j) ==
    At(c, i).timestamp < At(c, j).timestamp

Less(c, i, j) ==
    IF At(c, i).value.Priority = At(c, j).value.Priority
    THEN At(c, i).timestamp < At(c, j).timestamp
    ELSE At(c, i).value.Priority > At(c, j).value.Priority

Swap(c, i, j) ==
    LET x == c.pq[i + 1]
        y == c.pq[j + 1]
    IN  [c EXCEPT !.pq = [@ EXCEPT ![i + 1] = y, ![j + 1] = x],
                  !.obj = [[@ EXCEPT ![y].index = i] EXCEPT ![x].index = j]]

Push(c, x) ==
    [c EXCEPT !.obj = [@ EXCEPT ![x].index = Len(c.pq)],
              !.pq = Append(@, x)]

Pop(c) ==
    LET n == Len(c.pq)
        item == c.pq[n]
    IN  [c |-> [c EXCEPT !.obj = [@ EXCEPT ![item].index = -1],
                         !.pq = SubSeq(@, 1, n - 1)],
         item |-> item]

\* ----------------------------------------------------------- container/heap
RECURSIVE HeapUp(_, _)
HeapUp(c, j) ==
    LET i == IF j <= 0 THEN 0 ELSE (j - 1) \div 2
    IN  IF i = j \/ ~Less(c, j, i) THEN c ELSE HeapUp(Swap(c, i, j), i)

RECURSIVE HeapDownLoop(_, _, _)
HeapDownLoop(c, i, n) ==
    LET j1 == 2 * i + 1
    IN  IF j1 >= n \/ j1 < 0
        THEN [c |-> c, i |-> i]
        ELSE LET j == IF j1 + 1 < n /\ Less(c, j1 + 1, j1) THEN j1 + 1 ELSE j1
             IN  IF ~Less(c, j, i)
                 THEN [c |-> c, i |-> i]
                 ELSE HeapDownLoop(Swap(c, i, j), j, n)

HeapDown(c, i0, n) ==
    LET r == HeapDownLoop(c, i0, n)
    IN  [c |-> r.c, moved |-> r.i > i0]

HeapPush(c, x) == HeapUp(Push(c, x), Len(c.pq))

HeapPop(c) ==
    LET n == Len(c.pq) - 1
    IN  Pop(HeapDown(Swap(c, 0, n), 0, n).c)

HeapRemove(c, i) ==
    LET n == Len(c.pq) - 1
    IN  IF n # i
        THEN LET d == HeapDown(Swap(c, i, n), i, n)
             IN  Pop(IF ~d.moved THEN HeapUp(d.c, i) ELSE d.c)
        ELSE Pop(c)

\* -------------------------------------------------------------------- Cache
NewCache(maxSize) ==
    [items |-> [k \in CacheKey |-> NoId],
     pq |-> <<>>,
     obj |-> [x \in ItemIds |-> NoItem],
     currSize |-> 0,
     maxSize |-> maxSize]

ExpiredAtDeadline(item, t) == item.expiry <= t

\* item.expiry.Before(time.Now())
Expired(item, t) == item.expiry < t

GetReaping(c, key, t) ==
    LET id == c.items[key]
    IN  IF id = NoId
        THEN [cache |-> c, value |-> NoValue, found |-> FALSE]
        ELSE IF Expired(c.obj[id], t)
        THEN [cache |-> [HeapRemove(c, c.obj[id].index).c EXCEPT
                            !.items[key] = NoId, !.currSize = @ - 1],
              value |-> NoValue, found |-> FALSE]
        ELSE [cache |-> c, value |-> c.obj[id].value, found |-> TRUE]

GetIgnoringExpiry(c, key, t) ==
    LET id == c.items[key]
    IN  IF id = NoId
        THEN [cache |-> c, value |-> NoValue, found |-> FALSE]
        ELSE [cache |-> c, value |-> c.obj[id].value, found |-> TRUE]

\* Get: the cache afterwards, the value returned and found.
Get(c, key, t) ==
    LET id == c.items[key]
    IN  IF id = NoId \/ Expired(c.obj[id], t)
        THEN [cache |-> c, value |-> NoValue, found |-> FALSE]
        ELSE [cache |-> c, value |-> c.obj[id].value, found |-> TRUE]

RemoveOldKeepingInQueue(c, key) ==
    IF c.items[key] # NoId THEN [c EXCEPT !.currSize = @ - 1] ELSE c

RemoveOldNoDecrement(c, key) ==
    LET id == c.items[key]
    IN  IF id = NoId THEN c ELSE HeapRemove(c, c.obj[id].index).c

\* SetWithTTL, the removal of the entry the key already has.
RemoveOld(c, key) ==
    IF c.items[key] # NoId
    THEN HeapRemove([c EXCEPT !.currSize = @ - 1], c.obj[c.items[key]].index).c
    ELSE c

InsertKeepingOldPriority(c, id, key, value, ttl, t1, t2) ==
    LET old == c.items[key]
        c1 == RemoveOld(c, key)
        item == [key |-> key,
                 value |-> IF old # NoId
                           THEN [value EXCEPT !.Priority = c.obj[old].value.Priority]
                           ELSE value,
                 expiry |-> t1 + ttl, index |-> 0, timestamp |-> t2]
        c2 == [c1 EXCEPT !.obj = [@ EXCEPT ![id] = item], !.items[key] = id]
    IN  [HeapPush(c2, id) EXCEPT !.currSize = @ + 1]

InsertWithoutTTL(c, id, key, value, ttl, t1, t2) ==
    LET c1 == RemoveOld(c, key)
        item == [key |-> key, value |-> value, expiry |-> t1,
                 index |-> 0, timestamp |-> t2]
        c2 == [c1 EXCEPT !.obj = [@ EXCEPT ![id] = item], !.items[key] = id]
    IN  [HeapPush(c2, id) EXCEPT !.currSize = @ + 1]

\* SetWithTTL up to the capacity loop: t1 and t2 are its two clock reads.
Insert(c, id, key, value, ttl, t1, t2) ==
    LET c1 == RemoveOld(c, key)
        item == [key |-> key, value |-> value, expiry |-> t1 + ttl,
                 index |-> 0, timestamp |-> t2]
        c2 == [c1 EXCEPT !.obj = [@ EXCEPT ![id] = item], !.items[key] = id]
    IN  [HeapPush(c2, id) EXCEPT !.currSize = @ + 1]

OverCapacityByTwo(c) == c.currSize > c.maxSize + 1

\* SetWithTTL, the condition of the capacity loop.
OverCapacity(c) == c.currSize > c.maxSize

EvictOneKeepingInMap(c) ==
    LET p == HeapPop(c)
    IN  [c |-> [p.c EXCEPT !.currSize = @ - 1], item |-> p.item]

\* SetWithTTL, one turn of the capacity loop.
EvictOne(c) ==
    LET p == HeapPop(c)
    IN  [c |-> [p.c EXCEPT !.items[c.obj[p.item].key] = NoId, !.currSize = @ - 1],
         item |-> p.item]

ExpireKeyUnchecked(c, key, t) ==
    LET id == c.items[key]
    IN  IF id # NoId
        THEN [HeapRemove(c, c.obj[id].index).c EXCEPT
                 !.items[key] = NoId, !.currSize = @ - 1]
        ELSE c

\* The expiry goroutine after its sleep.
ExpireKey(c, key, t) ==
    LET id == c.items[key]
    IN  IF id # NoId /\ Expired(c.obj[id], t)
        THEN [HeapRemove(c, c.obj[id].index).c EXCEPT
                 !.items[key] = NoId, !.currSize = @ - 1]
        ELSE c

\* A call of Cache.onEvict (the logging callback CreateServer installs) with the
\* key and value of the removed item id, made when the cache is c; next to what
\* the call carries, the note records what the cache then was for that key.
OnEvict(ns, c, id) ==
    ns (+) SetToBag({[key |-> c.obj[id].key, value |-> c.obj[id].value,
                      mapped |-> c.items[c.obj[id].key] # NoId,
                      size |-> c.currSize]})

ExpireNotesUnchecked(ns, c, key, t) ==
    LET id == c.items[key]
    IN  IF id # NoId THEN OnEvict(ns, ExpireKey(c, key, t), id) ELSE ns

\* The expiry goroutine's call of onEvict, made after the removal and only if
\* it removed.
ExpireNotes(ns, c, key, t) ==
    LET id == c.items[key]
    IN  IF id # NoId /\ Expired(c.obj[id], t)
        THEN OnEvict(ns, ExpireKey(c, key, t), id)
        ELSE ns

\* ------------------------------------------------------------------ states
NoRet == [key |-> NoItem.key, value |-> NoValue, found |-> FALSE, at |-> 0]
NoCalls == [gets |-> 0, sets |-> 0, fetches |-> 0]

\* An Inventory row as bound from the request: "" is an absent string field,
\* priority 0 an absent priority.
NoRow == [InventoryID |-> "", UtcDatetime |-> "", Priority |-> 0]
EmptyMap == [x \in {} |-> NoRow]

IdleHandler ==
    /\ hpc = "idle"
    /\ rows = <<>>
    /\ hi = 0
    /\ result = <<>>
    /\ cacheMisses = EmptyMap
    /\ resBody = <<>>
    /\ status = 0
    /\ respRows = <<>>
    /\ calls = NoCalls

\* A Cache as CreateServer builds it, used directly.
Init ==
    /\ now = 0
    /\ \E m \in 0..MaxCap : cache = NewCache(m)
    /\ mu = Free
    /\ tasks = {}
    /\ wr = <<>>
    /\ evicted = {}
    /\ ret = NoRet
    /\ notes = EmptyBag
    /\ IdleHandler

\* ------------------------------------------------------- the cache's actions
\* The clock read a second time inside SetWithTTL: the same tick or the next.
SecondRead == {t \in {now, now + 1} : t <= MaxTime}

SetBeginCancelling(who, key, value, ttl, t2) ==
    LET id == Len(wr) + 1
    IN  /\ mu = Free
        /\ mu' = who
        /\ cache' = Insert(cache, id, key, value, ttl, now, t2)
        /\ now' = t2
        /\ tasks' = {t \in tasks : t.key # key}
                        \cup {[id |-> id, key |-> key, wake |-> t2 + ttl]}
        /\ wr' = Append(wr, [key |-> key, value |-> value, ttl |-> ttl, t1 |-> now])
        /\ UNCHANGED <<evicted, ret, notes>>

\* SetWithTTL from the lock to the start of the capacity loop, goroutine started.
SetBegin(who, key, value, ttl, t2) ==
    LET id == Len(wr) + 1
    IN  /\ mu = Free
        /\ mu' = who
        /\ cache' = Insert(cache, id, key, value, ttl, now, t2)
        /\ now' = t2
        /\ tasks' = tasks \cup {[id |-> id, key |-> key, wake |-> t2 + ttl]}
        /\ wr' = Append(wr, [key |-> key, value |-> value, ttl |-> ttl, t1 |-> now])
        /\ UNCHANGED <<evicted, ret, notes>>

\* The emissions value of the next write: each write carries a value of its own,
\* so that a read tells the writes apart.
Stamp == Len(wr) + 1

\* A direct call of Cache.SetWithTTL.
ClientSet ==
    /\ Len(wr) < MaxWrites
    /\ \E key \in CacheKey, p \in Priorities, ttl \in TTLs, t2 \in SecondRead :
        /\ SetBegin("client", key, [Emissions |-> Stamp, Priority |-> p], ttl, t2)
        /\ UNCHANGED hvars

\* One turn of the capacity loop, by whoever holds the lock.
SetEvict ==
    /\ mu # Free
    /\ OverCapacity(cache)
    /\ cache' = EvictOne(cache).c
    /\ evicted' = evicted \cup {EvictOne(cache).item}
    /\ notes' = OnEvict(notes, EvictOne(cache).c, EvictOne(cache).item)
    /\ UNCHANGED <<now, mu, tasks, wr, ret>>
    /\ UNCHANGED hvars

\* The capacity loop ends and the deferred Unlock runs.
ClientSetEnd ==
    /\ mu = "client"
    /\ ~OverCapacity(cache)
    /\ mu' = Free
    /\ UNCHANGED <<now, cache, tasks, wr, evicted, ret, notes>>
    /\ UNCHANGED hvars

\* A direct call of Cache.Get.
ClientGet(key) ==
    /\ mu = Free
    /\ cache' = Get(cache, key, now).cache
    /\ ret' = [key |-> key, value |-> Get(cache, key, now).value,
               found |-> Get(cache, key, now).found, at |-> now]
    /\ UNCHANGED <<now, mu, tasks, wr, evicted, notes>>
    /\ UNCHANGED hvars

\* An expiry goroutine wakes (at its wake time or any time later) and runs.
Expire(t) ==
    /\ mu = Free
    /\ now >= t.wake
    /\ cache' = ExpireKey(cache, t.key, now)
    /\ notes' = ExpireNotes(notes, cache, t.key, now)
    /\ tasks' = tasks \ {t}
    /\ UNCHANGED <<now, mu, wr, evicted, ret>>
    /\ UNCHANGED hvars

Tick ==
    /\ now < MaxTime
    /\ now' = now + 1
    /\ UNCHANGED <<cache, mu, tasks, wr, evicted, ret, notes>>
    /\ UNCHANGED hvars

Next ==
    \/ ClientSet
    \/ SetEvict
    \/ ClientSetEnd
    \/ \E key \in CacheKey : ClientGet(key)
    \/ \E t \in tasks : Expire(t)
    \/ Tick

Spec == Init /\ [][Next]_vars

\* ---------------------------------------------------------- EmissionHandler
\* The rows a request may carry: good rows for the keys in play (two share an
\* identifier, two a date, two a priority), and one row for each way a row can
\* be bad.
GoodRows ==
    {[InventoryID |-> "a", UtcDatetime |-> "d1", Priority |-> 1],
     [InventoryID |-> "a", UtcDatetime |-> "d2", Priority |-> 2],
     [InventoryID |-> "b", UtcDatetime |-> "d1", Priority |-> 2]}
BadRows ==
    {[InventoryID |-> "", UtcDatetime |-> "d1", Priority |-> 1],
     [InventoryID |-> "a", UtcDatetime |-> "", Priority |-> 1],
     [InventoryID |-> "a", UtcDatetime |-> "d1", Priority |-> 0],
     [InventoryID |-> "a", UtcDatetime |-> "d1", Priority |-> MaxPriority + 1]}

SeqsUpTo(S, n) == UNION {[1..m -> S] : m \in 0..n}

Batches == SeqsUpTo(GoodRows \cup BadRows, MaxBatch)

\* What the fetch may return: rows for any identifiers, in any order; the
\* j-th row carries the emissions value j.
Responses ==
    {[j \in DOMAIN ids |-> [InventoryID |-> ids[j], Emissions |-> j]] :
        ids \in SeqsUpTo(IDs, MaxResp)}

ValidRowAnyPriority(row) ==
    /\ row.InventoryID # ""
    /\ row.UtcDatetime # ""
    /\ row.Priority # 0

\* The binding tags of Inventory: required, required, required,min=1,max=10.
ValidRow(row) ==
    /\ row.InventoryID # ""
    /\ row.UtcDatetime # ""
    /\ row.Priority # 0
    /\ row.Priority >= MinPriority
    /\ row.Priority <= MaxPriority

\* BindJSON with binding:"dive" succeeds.
BindOK(b) == \A i \in DOMAIN b : ValidRow(b[i])

KeyOf(row) == [InventoryID |-> row.InventoryID, UtcDatetime |-> row.UtcDatetime]

MapPutKeepFirst(m, k, v) ==
    [x \in DOMAIN m \cup {k} |-> IF x \in DOMAIN m THEN m[x] ELSE v]

MapPut(m, k, v) == [x \in DOMAIN m \cup {k} |-> IF x = k THEN v ELSE m[x]]

\* A request arrives and is bound.
HBind(b) ==
    /\ hpc = "idle"
    /\ rows' = b
    /\ calls' = NoCalls
    /\ IF BindOK(b)
       THEN /\ hpc' = "lookup"
            /\ hi' = 1
            /\ UNCHANGED <<status, respRows>>
       ELSE /\ hpc' = "done"
            /\ status' = 400
            /\ respRows' = <<>>
            /\ UNCHANGED hi
    /\ UNCHANGED <<result, cacheMisses, resBody>>
    /\ UNCHANGED cvars

\* One turn of the loop over reqBody.Rows.
HLookup ==
    /\ hpc = "lookup"
    /\ hi <= Len(rows)
    /\ mu = Free
    /\ LET row == rows[hi]
           key == KeyOf(row)
           g == Get(cache, key, now)
       IN  /\ cache' = g.cache
           /\ IF g.found
              THEN /\ result' = Append(result, [InventoryID |-> key.InventoryID,
                                                Emissions |-> g.value.Emissions])
                   /\ UNCHANGED cacheMisses
              ELSE /\ cacheMisses' = MapPut(cacheMisses, key.InventoryID, row)
                   /\ UNCHANGED result
    /\ hi' = hi + 1
    /\ calls' = [calls EXCEPT !.gets = @ + 1]
    /\ UNCHANGED <<now, mu, tasks, wr, evicted, ret, notes>>
    /\ UNCHANGED <<hpc, rows, resBody, status, respRows>>

\* The loop is over and nothing was missed: respond.
HAllHits ==
    /\ hpc = "lookup"
    /\ hi > Len(rows)
    /\ DOMAIN cacheMisses = {}
    /\ hpc' = "done"
    /\ status' = 200
    /\ respRows' = result
    /\ UNCHANGED <<rows, hi, result, cacheMisses, resBody, calls>>
    /\ UNCHANGED cvars

HFetchHoldingLock ==
    /\ hpc = "lookup"
    /\ hi > Len(rows)
    /\ DOMAIN cacheMisses # {}
    /\ mu = Free
    /\ mu' = "handler"
    /\ hpc' = "fetch"
    /\ calls' = [calls EXCEPT !.fetches = @ + 1]
    /\ UNCHANGED <<rows, hi, result, cacheMisses, resBody, status, respRows>>
    /\ UNCHANGED <<now, cache, tasks, wr, evicted, ret, notes>>

\* The loop is over with misses: getEmissionDataFromInternalAPI is called.
HFetch ==
    /\ hpc = "lookup"
    /\ hi > Len(rows)
    /\ DOMAIN cacheMisses # {}
    /\ hpc' = "fetch"
    /\ calls' = [calls EXCEPT !.fetches = @ + 1]
    /\ UNCHANGED <<rows, hi, result, cacheMisses, resBody, status, respRows>>
    /\ UNCHANGED cvars

HFetchFailPartial ==
    /\ hpc = "fetch"
    /\ hpc' = "done"
    /\ status' = 500
    /\ respRows' = result
    /\ UNCHANGED <<rows, hi, result, cacheMisses, resBody, calls>>
    /\ UNCHANGED cvars

HFetchFailRetry ==
    /\ hpc = "fetch"
    /\ hpc' = "lookup"
    /\ UNCHANGED <<rows, hi, result, cacheMisses, resBody, status, respRows, calls>>
    /\ UNCHANGED cvars

\* The fetch returns an error.
HFetchFail ==
    /\ hpc = "fetch"
    /\ hpc' = "done"
    /\ status' = 500
    /\ respRows' = <<>>
    /\ UNCHANGED <<rows, hi, result, cacheMisses, resBody, calls>>
    /\ UNCHANGED cvars

\* The fetch returns rows, which are appended to result.
HFetchOK(resp) ==
    /\ hpc = "fetch"
    /\ hpc' = "store"
    /\ resBody' = resp
    /\ result' = result \o resp
    /\ hi' = 1
    /\ UNCHANGED <<rows, cacheMisses, status, respRows, calls>>
    /\ UNCHANGED cvars

\* One turn of the loop over resBody, for an identifier that was missed.
HStoreSet ==
    /\ hpc = "store"
    /\ Len(wr) < MaxStores
    /\ hi <= Len(resBody)
    /\ resBody[hi].InventoryID \in DOMAIN cacheMisses
    /\ LET data == resBody[hi]
           v == cacheMisses[data.InventoryID]
           key == [InventoryID |-> data.InventoryID, UtcDatetime |-> v.UtcDatetime]
       IN  \E t2 \in SecondRead :
               SetBegin("handler", key,
                        [Emissions |-> data.Emissions, Priority |-> v.Priority],
                        CacheExpiration, t2)
    /\ calls' = [calls EXCEPT !.sets = @ + 1]
    /\ UNCHANGED <<hpc, rows, hi, result, cacheMisses, resBody, status, respRows>>

\* SetWithTTL returns to the handler.
HSetEnd ==
    /\ mu = "handler"
    /\ ~OverCapacity(cache)
    /\ mu' = Free
    /\ hi' = hi + 1
    /\ UNCHANGED <<now, cache, tasks, wr, evicted, ret, notes>>
    /\ UNCHANGED <<hpc, rows, result, cacheMisses, resBody, status, respRows, calls>>

\* One turn of the loop over resBody, for an identifier that was not asked for.
HStoreSkip ==
    /\ hpc = "store"
    /\ hi <= Len(resBody)
    /\ resBody[hi].InventoryID \notin DOMAIN cacheMisses
    /\ hi' = hi + 1
    /\ UNCHANGED <<hpc, rows, result, cacheMisses, resBody, status, respRows, calls>>
    /\ UNCHANGED cvars

\* The loop over resBody is over: respond.
HRespond ==
    /\ hpc = "store"
    /\ hi > Len(resBody)
    /\ mu # "handler"
    /\ hpc' = "done"
    /\ status' = 200
    /\ respRows' = result
    /\ UNCHANGED <<rows, hi, result, cacheMisses, resBody, calls>>
    /\ UNCHANGED cvars

\* The handler returns; the next request finds it as new.
HReturn ==
    /\ hpc = "done"
    /\ hpc' = "idle"
    /\ rows' = <<>>
    /\ hi' = 0
    /\ result' = <<>>
    /\ cacheMisses' = EmptyMap
    /\ resBody' = <<>>
    /\ status' = 0
    /\ respRows' = <<>>
    /\ calls' = NoCalls
    /\ UNCHANGED cvars

NextServer ==
    \/ \E b \in Batches : HBind(b)
    \/ HLookup
    \/ HAllHits
    \/ HFetch
    \/ HFetchFail
    \/ \E resp \in Responses : HFetchOK(resp)
    \/ HStoreSet
    \/ SetEvict
    \/ HSetEnd
    \/ HStoreSkip
    \/ HRespond
    \/ HReturn
    \/ \E t \in tasks : Expire(t)
    \/ Tick

SpecServer == Init /\ [][NextServer]_vars

\* Cache.Get called by the handler of another request: the lock is taken,
OtherGetBegin ==
    /\ mu = Free
    /\ mu' = "reader"
    /\ UNCHANGED <<now, cache, tasks, wr, evicted, ret, notes>>
    /\ UNCHANGED hvars

\* and released on return; Get writes nothing, and what it returns goes to
\* that other handler.
OtherGetEnd ==
    /\ mu = "reader"
    /\ mu' = Free
    /\ UNCHANGED <<now, cache, tasks, wr, evicted, ret, notes>>
    /\ UNCHANGED hvars

\* Cache.SetWithTTL called by the handler of another request.
OtherSet == Len(wr) < MaxStores /\ ClientSet

\* The requests of the handler that is followed step by step.
SharedBatches == {b \in Batches : Len(b) <= MaxSharedBatch}

\* The handler of one request next to the cache calls of the handlers of other
\* requests, in every interleaving.
NextShared ==
    \/ \E b \in SharedBatches : HBind(b)
    \/ HLookup
    \/ HAllHits
    \/ HFetch
    \/ HFetchFail
    \/ \E resp \in Responses : HFetchOK(resp)
    \/ HStoreSet
    \/ SetEvict
    \/ HSetEnd
    \/ HStoreSkip
    \/ HRespond
    \/ HReturn
    \/ \E t \in tasks : Expire(t)
    \/ Tick
    \/ OtherSet
    \/ ClientSetEnd
    \/ OtherGetBegin
    \/ OtherGetEnd

SpecShared == Init /\ [][NextShared]_vars

\* ------------------------------------------------------------------ claims
\* The items in the priority queue.
Queued(c) == {c.pq[i] : i \in 1..Len(c.pq)}

\* The items in the map.
Mapped(c) == {c.items[k] : k \in CacheKey} \ {NoId}

Written(k) == {i \in 1..Len(wr) : wr[i].key = k}

\* The last write of key k (one exists).
LastWrite(k) == CHOOSE i \in Written(k) : \A j \in Written(k) : j <= i

\* T after the clock read that set the deadline of write i.
Deadline(i) == wr[i].t1 + wr[i].ttl

\* The goroutine of write i has run.
Fired(i) == \A t \in tasks : t.id # i

\* C1: whenever no SetWithTTL is inside its critical section, the live count
\* is at most the capacity.
C1_SizeWithinCapacity == mu = Free => cache.currSize <= cache.maxSize

\* A write over capacity has completed: something was evicted and the cache is
\* exactly full.
C1_Witness ==
    /\ mu = Free
    /\ evicted # {}
    /\ cache.maxSize >= 1
    /\ cache.currSize = cache.maxSize

\* C2: the item a turn of the capacity loop removes has the highest priority
\* value of all items then in the store, and among those the oldest timestamp.
C2_EvictsHighestOldest ==
    [][(mu # Free /\ mu' = mu /\ cache' # cache) =>
        \A v \in Queued(cache) \ Queued(cache') :
            \A e \in Queued(cache) \cup Mapped(cache) :
                \/ cache.obj[v].value.Priority > cache.obj[e].value.Priority
                \/ /\ cache.obj[v].value.Priority = cache.obj[e].value.Priority
                   /\ cache.obj[v].timestamp <= cache.obj[e].timestamp]_vars

\* An evicted item of higher priority value and later timestamp than one kept.
C2_Witness ==
    \E v \in evicted : \E e \in Queued(cache) :
        /\ cache.obj[v].value.Priority > cache.obj[e].value.Priority
        /\ cache.obj[v].timestamp > cache.obj[e].timestamp

\* C3 as claimed: a key written and not overwritten is a hit with the written
\* value at every time before its deadline.
C3_HitBeforeDeadline ==
    mu = Free =>
        \A k \in CacheKey :
            (Written(k) # {} /\ now < Deadline(LastWrite(k))) =>
                /\ Get(cache, k, now).found
                /\ Get(cache, k, now).value = wr[LastWrite(k)].value

\* C3 amended: ... provided the capacity loop has not removed it.
C3_HitBeforeDeadlineUnlessEvicted ==
    mu = Free =>
        \A k \in CacheKey :
            (/\ Written(k) # {}
             /\ LastWrite(k) \notin evicted
             /\ now < Deadline(LastWrite(k))) =>
                /\ Get(cache, k, now).found
                /\ Get(cache, k, now).value = wr[LastWrite(k)].value

\* A key overwritten before its first deadline, the first write's goroutine
\* has run, another item has been evicted, and the key is still a hit.
C3_Witness ==
    /\ mu = Free
    /\ evicted # {}
    /\ \E k \in CacheKey :
        /\ Cardinality(Written(k)) >= 2
        /\ LastWrite(k) \notin evicted
        /\ now < Deadline(LastWrite(k))
        /\ \E j \in Written(k) : j # LastWrite(k) /\ Fired(j)
        /\ Get(cache, k, now).found

\* C4 as claimed: a key written and not overwritten is a miss at and after
\* its deadline.
C4_MissAtDeadline ==
    mu = Free =>
        \A k \in CacheKey :
            (Written(k) # {} /\ now >= Deadline(LastWrite(k))) =>
                ~Get(cache, k, now).found

\* C4 amended: ... is a miss at every time strictly after its deadline.
C4_MissAfterDeadline ==
    mu = Free =>
        \A k \in CacheKey :
            (Written(k) # {} /\ now > Deadline(LastWrite(k))) =>
                ~Get(cache, k, now).found

\* Past the deadline with the item still in the map and the queue.
C4_Witness ==
    /\ mu = Free
    /\ \E k \in CacheKey :
        /\ Written(k) # {}
        /\ now > Deadline(LastWrite(k))
        /\ cache.items[k] = LastWrite(k)
        /\ LastWrite(k) \in Queued(cache)
        /\ ~Get(cache, k, now).found

\* C5: outside a critical section the map and the queue hold the same items,
\* each once and under its own key and index, and currSize counts them.
C5_MapQueueCount ==
    mu = Free =>
        /\ Mapped(cache) = Queued(cache)
        /\ Cardinality(Queued(cache)) = Len(cache.pq)
        /\ cache.currSize = Len(cache.pq)
        /\ \A k \in CacheKey :
            cache.items[k] # NoId => cache.obj[cache.items[k]].key = k
        /\ \A i \in 1..Len(cache.pq) : cache.obj[cache.pq[i]].index = i - 1

\* After an overwrite, an eviction and a removal by an expiry goroutine, with
\* an item left.
C5_Witness ==
    /\ mu = Free
    /\ evicted # {}
    /\ \E k \in CacheKey : Cardinality(Written(k)) >= 2
    /\ \E i \in 1..Len(wr) :
        /\ i = LastWrite(wr[i].key)
        /\ i \notin evicted
        /\ i \notin Queued(cache)
    /\ cache.currSize >= 1

C7_ReadsOneWrite ==
    [][\A k \in CacheKey :
        (ClientGet(k) /\ ret'.found) =>
            \E i \in Written(k) :
                /\ wr[i].value = ret'.value
                /\ now <= Deadline(i)]_vars

\* A Get returned the second write of a key whose writes differ in priority.
C7_Witness ==
    /\ ret.found
    /\ \E i \in Written(ret.key) :
        /\ wr[i].value = ret.value
        /\ \E j \in Written(ret.key) :
            j < i /\ wr[j].value.Priority # wr[i].value.Priority

\* C8: Get changes nothing of the cache.
C8_GetChangesNothing ==
    [][\A k \in CacheKey : ClientGet(k) => cache' = cache]_vars

\* A Get missed on an entry past its deadline (written before the Get, and
\* the deadline before the Get), and the entry is still in the map and queue.
C8_Witness ==
    /\ ~ret.found
    /\ ret.key \in CacheKey
    /\ cache.items[ret.key] # NoId
    /\ cache.items[ret.key] \in Queued(cache)
    /\ cache.obj[cache.items[ret.key]].expiry < ret.at
    /\ cache.currSize >= 1

\* A row that binding must refuse.
BadRow(row) ==
    \/ row.InventoryID = ""
    \/ row.UtcDatetime = ""
    \/ row.Priority \notin 1..10

\* C9: a failed fetch ends the request with status 500 and no rows, the
\* handler has written nothing, and no missed key is in the cache.
C9_FailedFetch ==
    status = 500 =>
        /\ hpc = "done"
        /\ respRows = <<>>
        /\ calls.sets = 0
        /\ calls.fetches = 1
        /\ \A id \in DOMAIN cacheMisses :
            ~Get(cache, KeyOf(cacheMisses[id]), now).found

\* A fetch failed after a hit had been collected.
C9_Witness ==
    /\ status = 500
    /\ result # <<>>
    /\ DOMAIN cacheMisses # {}

RequestWrites == {i \in 1..Len(wr) : i > Len(wr) - calls.sets}

\* The fetch returned a row for every identifier it was asked for.
FetchedAll ==
    \A id \in DOMAIN cacheMisses :
        \E j \in DOMAIN resBody : resBody[j].InventoryID = id

\* Every row of the request was a miss and the request has succeeded.
AllMissedDone ==
    /\ hpc = "done"
    /\ status = 200
    /\ rows # <<>>
    /\ calls.fetches = 1
    /\ result = resBody

\* C11: after a successful request whose rows were all uncached, on a store
\* with room for every row and nothing else in it, with a fetch that answered
\* every identifier, and before the TTL of any of its writes has elapsed, a
\* lookup of each of its rows is a hit (so that the same request, made again,
\* has no miss, makes no fetch and answers every row).
C11_SecondCallAllHits ==
    (/\ AllMissedDone
     /\ FetchedAll
     /\ cache.maxSize >= Len(rows)
     /\ Len(wr) = calls.sets
     /\ \A i \in RequestWrites : now < Deadline(i)) =>
        \A i \in DOMAIN rows : Get(cache, KeyOf(rows[i]), now).found

\* C12: a request makes at most one fetch: none while it looks up and none
\* when every row was a hit, one when a row was missed, and one, not two, when
\* the fetch failed.
C12_OneFetchPerRequest ==
    /\ calls.fetches <= 1
    /\ hpc = "lookup" => calls.fetches = 0
    /\ hpc \in {"fetch", "store"} =>
        calls.fetches = 1 /\ DOMAIN cacheMisses # {}
    /\ (hpc = "done" /\ status # 400) =>
        calls.fetches = IF DOMAIN cacheMisses = {} THEN 0 ELSE 1
    /\ status = 500 => calls.fetches = 1

\* A request of a hit and a miss has succeeded with one fetch.
C12_Witness ==
    /\ hpc = "done"
    /\ status = 200
    /\ calls.fetches = 1
    /\ resBody # <<>>
    /\ Len(result) > Len(resBody)

\* C13: a turn of the capacity loop runs only over capacity and removes one
\* entry, from the queue and from the map, with one decrement of the count;
\* every other entry keeps its key, value, priority, timestamp and expiry and
\* is retrievable as before; and on capacity 2 with priorities 1 and 2
\* resident and a third key written with priority 1, the entry removed is the
\* one of priority 2.
C13_EvictionRemovesOne ==
    [][(mu # Free /\ mu' = mu /\ cache' # cache) =>
        \E v \in Queued(cache) :
            /\ cache.currSize > cache.maxSize
            /\ Queued(cache') = Queued(cache) \ {v}
            /\ Len(cache'.pq) = Len(cache.pq) - 1
            /\ cache'.items = [cache.items EXCEPT ![cache.obj[v].key] = NoId]
            /\ cache'.currSize = cache.currSize - 1
            /\ cache'.maxSize = cache.maxSize
            /\ \A e \in Queued(cache) \ {v} :
                /\ cache'.obj[e].key = cache.obj[e].key
                /\ cache'.obj[e].value = cache.obj[e].value
                /\ cache'.obj[e].timestamp = cache.obj[e].timestamp
                /\ cache'.obj[e].expiry = cache.obj[e].expiry
                /\ cache'.items[cache.obj[e].key] = e
            /\ \A k \in CacheKey \ {cache.obj[v].key} :
                /\ Get(cache', k, now).found = Get(cache, k, now).found
                /\ Get(cache', k, now).value = Get(cache, k, now).value
            /\ (/\ cache.maxSize = 2
                /\ Len(cache.pq) = 3
                /\ cache.obj[Len(wr)].value.Priority = 1
                /\ {cache.obj[e].value.Priority :
                        e \in Queued(cache) \ {Len(wr)}} = {1, 2}) =>
                    cache.obj[v].value.Priority = 2]_vars

\* Capacity 2, three keys written with priorities 1 and 2 and then 1: the
\* entry of priority 2 alone was removed and the other two are hits.
C13_Witness ==
    /\ mu = Free
    /\ cache.maxSize = 2
    /\ Len(wr) = 3
    /\ wr[3].value.Priority = 1
    /\ \E i, j \in {1, 2} :
        /\ wr[i].value.Priority = 1
        /\ wr[j].value.Priority = 2
        /\ evicted = {j}
        /\ Queued(cache) = {i, 3}
        /\ cache.currSize = 2
        /\ Get(cache, wr[i].key, now).found
        /\ Get(cache, wr[3].key, now).found

\* The entries in the store.
Stored(c) == Queued(c) \cup Mapped(c)

\* C14 as claimed: every entry in the store has its expiry after its
\* timestamp.
C14_ExpiryAfterTimestamp ==
    \A e \in Stored(cache) : cache.obj[e].expiry > cache.obj[e].timestamp

\* C14 amended: every entry in the store has as expiry the first clock read
\* of its write plus the TTL, which is after that read; its timestamp is a
\* read not before the first, and the expiry is after the timestamp exactly
\* when the clock advanced by less than the TTL between the two reads.
C14_ExpiryAfterFirstRead ==
    \A e \in Stored(cache) :
        /\ cache.obj[e].expiry = wr[e].t1 + wr[e].ttl
        /\ cache.obj[e].expiry > wr[e].t1
        /\ cache.obj[e].timestamp >= wr[e].t1
        /\ cache.obj[e].expiry > cache.obj[e].timestamp
                <=> cache.obj[e].timestamp - wr[e].t1 < wr[e].ttl

\* An entry written while the clock advanced by its TTL between the two
\* reads is in the store.
C14_Witness ==
    /\ mu = Free
    /\ \E e \in Queued(cache) :
        /\ cache.obj[e].timestamp = wr[e].t1 + wr[e].ttl
        /\ cache.obj[e].expiry = cache.obj[e].timestamp

\* C15: a SetWithTTL on a key that has an entry leaves, before the capacity
\* loop, the old entry out of the queue and the map, the new entry as the one
\* entry of the key in both, every other entry in place, and the count as it
\* was.
C15_OverwriteReplaces ==
    [][(Len(wr') = Len(wr) + 1 /\ cache.items[wr'[Len(wr')].key] # NoId) =>
        LET k == wr'[Len(wr')].key
            old == cache.items[k]
            new == Len(wr')
        IN  /\ old # new
            /\ old \notin Stored(cache')
            /\ cache'.obj[old].index = -1
            /\ cache'.items[k] = new
            /\ {e \in Queued(cache') : cache'.obj[e].key = k} = {new}
            /\ Queued(cache') = (Queued(cache) \ {old}) \cup {new}
            /\ Len(cache'.pq) = Len(cache.pq)
            /\ cache'.currSize = cache.currSize
            /\ ~OverCapacity(cache')]_vars

\* A key written twice, the second time after the deadline of the first entry,
\* which no goroutine and no eviction had removed: the second entry is the one
\* in the store.
C15_Witness ==
    /\ mu = Free
    /\ \E k \in CacheKey :
        /\ Cardinality(Written(k)) = 2
        /\ \E j \in Written(k) :
            /\ j # LastWrite(k)
            /\ wr[LastWrite(k)].t1 > Deadline(j)
            /\ ~Fired(j)
            /\ j \notin evicted
            /\ j \notin Stored(cache)
        /\ cache.items[k] = LastWrite(k)
        /\ LastWrite(k) \in Queued(cache)
        /\ cache.currSize = 1

\* The lookups of the request are over and none was a hit.
AllMissed ==
    /\ hpc \in {"fetch", "store", "done"}
    /\ status # 400
    /\ calls.fetches = 1
    /\ Len(result) = Len(resBody)

\* Row j is the last row of its identifier, and row i an earlier row of that
\* identifier with another date.
Collide(i, j) ==
    /\ i < j
    /\ rows[i].InventoryID = rows[j].InventoryID
    /\ rows[i].UtcDatetime # rows[j].UtcDatetime
    /\ \A l \in DOMAIN rows : rows[l].InventoryID = rows[j].InventoryID => l <= j

\* C16: when two missed rows of a request share an identifier and differ in
\* date, the miss map (what is sent to the fetch) holds the later row alone
\* for that identifier, the request writes that identifier under the later
\* row's key and priority only, the earlier row's key stays a miss, and the
\* response has the fetched rows and nothing more.
C16_CollisionKeepsLater ==
    AllMissed =>
        \A i, j \in DOMAIN rows :
            Collide(i, j) =>
                /\ cacheMisses[rows[j].InventoryID] = rows[j]
                /\ \A w \in RequestWrites :
                    wr[w].key.InventoryID = rows[j].InventoryID =>
                        /\ wr[w].key = KeyOf(rows[j])
                        /\ wr[w].value.Priority = rows[j].Priority
                /\ ~Get(cache, KeyOf(rows[i]), now).found
                /\ (hpc = "done" /\ status = 200) => respRows = resBody

\* A request of two rows of one identifier and two dates has succeeded with
\* one response row; the later row's key is a hit and the earlier row's is not.
C16_Witness ==
    /\ hpc = "done"
    /\ status = 200
    /\ AllMissed
    /\ Len(rows) = 2
    /\ Collide(1, 2)
    /\ Len(respRows) = 1
    /\ respRows[1].InventoryID = rows[2].InventoryID
    /\ Get(cache, KeyOf(rows[2]), now).found
    /\ ~Get(cache, KeyOf(rows[1]), now).found

\* The fetch returned one row for each identifier it was asked for and no
\* other row.
FetchedExactly ==
    /\ \A id \in DOMAIN cacheMisses :
        Cardinality({j \in DOMAIN resBody : resBody[j].InventoryID = id}) = 1
    /\ \A j \in DOMAIN resBody : resBody[j].InventoryID \in DOMAIN cacheMisses

\* C17: after a successful request whose rows were all misses, with a fetch
\* that answered each identifier once, no eviction and no TTL elapsed, every
\* fetched row was written with the construction-time TTL and its value, and
\* every row of the request is a hit under its own key with its own priority.
C17_EveryMissRowCached ==
    (/\ AllMissedDone
     /\ FetchedExactly
     /\ evicted = {}
     /\ \A w \in RequestWrites : now <= Deadline(w)) =>
        /\ \A j \in DOMAIN resBody :
            \E w \in RequestWrites :
                /\ wr[w].key.InventoryID = resBody[j].InventoryID
                /\ wr[w].value.Emissions = resBody[j].Emissions
                /\ wr[w].ttl = CacheExpiration
        /\ \A i \in DOMAIN rows :
            /\ Get(cache, KeyOf(rows[i]), now).found
            /\ Get(cache, KeyOf(rows[i]), now).value.Priority = rows[i].Priority

\* The rows of identifier id in a sequence of rows.
RowsOf(sq, id) == {i \in DOMAIN sq : sq[i].InventoryID = id}

\* C18: a request that succeeds, with a fetch (if any) that answered each
\* identifier once, responds with the hits followed by the fetched rows, a
\* row for every row of the request; a request that fails responds with no
\* rows.
C18_AllOrNothing ==
    hpc = "done" =>
        /\ (status = 200 /\ (calls.fetches = 0 \/ FetchedExactly)) =>
            /\ respRows = result
            /\ \A id \in IDs :
                Cardinality(RowsOf(respRows, id)) >= Cardinality(RowsOf(rows, id))
        /\ status # 200 => respRows = <<>>

\* No goroutine of a write of key k has run.
NoneFired(k) == \A j \in Written(k) : ~Fired(j)

\* Every goroutine of a write of key k has run.
AllFired(k) == \A j \in Written(k) : Fired(j)

\* An entry past its deadline that no goroutine and no eviction removed is a
\* miss, is in the map and the queue, and is counted.
ExpiredStillCounts ==
    mu = Free =>
        \A k \in CacheKey :
            (/\ Written(k) # {}
             /\ NoneFired(k)
             /\ LastWrite(k) \notin evicted
             /\ now > Deadline(LastWrite(k))) =>
                /\ ~Get(cache, k, now).found
                /\ cache.items[k] = LastWrite(k)
                /\ LastWrite(k) \in Queued(cache)
                /\ cache.currSize = Cardinality(Queued(cache))

\* A turn of the capacity loop that removes an entry before its deadline
\* leaves in the store only entries, past their deadline or not, of lower
\* priority value or of the same priority value and no earlier timestamp.
ExpiredRankedAlike ==
    (mu # Free /\ mu' = mu /\ cache' # cache) =>
        \A v \in Queued(cache) \ Queued(cache') :
            \A e \in Queued(cache') :
                (cache.obj[e].expiry < now /\ cache.obj[v].expiry >= now) =>
                    \/ cache.obj[v].value.Priority > cache.obj[e].value.Priority
                    \/ /\ cache.obj[v].value.Priority = cache.obj[e].value.Priority
                       /\ cache.obj[v].timestamp <= cache.obj[e].timestamp

\* C19: an entry past its deadline and not removed is a miss on Get, is still
\* in the map and the queue and still counted, and the capacity loop ranks it
\* by priority and timestamp like any other entry.
C19_ExpiredOccupiesStore == []ExpiredStillCounts /\ [][ExpiredRankedAlike]_vars

\* An entry past its deadline is in the store, and an entry of higher
\* priority value, written after that deadline and not yet at its own, has
\* been evicted.
C19_Witness ==
    /\ mu = Free
    /\ \E z \in Queued(cache) : \E v \in evicted :
        /\ cache.obj[z].expiry < now
        /\ wr[v].t1 > cache.obj[z].expiry
        /\ cache.obj[v].expiry >= now
        /\ cache.obj[z].value.Priority < cache.obj[v].value.Priority

\* C20: once every expiry goroutine started for a key has run, the last entry
\* written for the key, if the capacity loop did not remove it, is out of the
\* store.
C20_RemovedOnceTasksRan ==
    mu = Free =>
        \A k \in CacheKey :
            (/\ Written(k) # {}
             /\ AllFired(k)
             /\ LastWrite(k) \notin evicted) =>
                LastWrite(k) \notin Stored(cache)

\* A step in which a SetWithTTL starts one goroutine, of its own write and key,
\* to wake one TTL after the second clock read, and stops none.
StartsOneTask ==
    Len(wr') = Len(wr) + 1 =>
        \E t \in tasks' \ tasks :
            /\ tasks' = tasks \cup {t}
            /\ t.id = Len(wr')
            /\ t.key = wr'[Len(wr')].key
            /\ t.wake = now' + wr'[Len(wr')].ttl

\* A step that is no start of a SetWithTTL ends at most one goroutine, outside
\* every SetWithTTL, and only one whose TTL has elapsed.
EndsOnlyElapsed ==
    Len(wr') = Len(wr) =>
        /\ tasks' \subseteq tasks
        /\ Cardinality(tasks \ tasks') <= 1
        /\ \A t \in tasks \ tasks' :
            /\ mu = Free /\ mu' = Free
            /\ now >= t.wake
            /\ now >= Deadline(t.id)

\* The goroutine t runs while its own entry is no longer the one in the map.
Stale(t) == cache.items[t.key] # t.id

NewKeyOfGreatestPriority ==
    /\ mu # Free
    /\ cache.maxSize >= 1
    /\ Len(cache.pq) = cache.maxSize + 1
    /\ Len(wr) \in Queued(cache)
    /\ \A e \in Queued(cache) \ {Len(wr)} :
        cache.obj[e].value.Priority < cache.obj[Len(wr)].value.Priority

\* C23: a turn of the capacity loop in a write of a new key to a full store,
\* with a priority value above every resident entry's, removes the entry just
\* written and nothing else: the loop is then over, a Get of the key is a miss,
\* and every resident entry is in the map and the queue with its fields as
\* they were.
C23_NewEntryEvictsItself ==
    [][(NewKeyOfGreatestPriority /\ mu' = mu /\ cache' # cache) =>
        /\ Queued(cache') = Queued(cache) \ {Len(wr)}
        /\ evicted' = evicted \cup {Len(wr)}
        /\ ~OverCapacity(cache')
        /\ cache'.currSize = cache.maxSize
        /\ ~Get(cache', wr[Len(wr)].key, now).found
        /\ \A e \in Queued(cache) \ {Len(wr)} :
            /\ cache'.items[cache.obj[e].key] = e
            /\ cache'.obj[e].key = cache.obj[e].key
            /\ cache'.obj[e].value = cache.obj[e].value
            /\ cache'.obj[e].expiry = cache.obj[e].expiry
            /\ cache'.obj[e].timestamp = cache.obj[e].timestamp]_vars

\* A write of a new key with the greatest priority value to a full store of
\* capacity 2 has returned: its entry is the one evicted, its key is a miss and
\* the two resident entries are hits.
C23_Witness ==
    /\ mu = Free
    /\ cache.maxSize = 2
    /\ Len(wr) = 3
    /\ evicted = {3}
    /\ Queued(cache) = {1, 2}
    /\ wr[3].value.Priority > wr[1].value.Priority
    /\ wr[3].value.Priority > wr[2].value.Priority
    /\ ~Get(cache, wr[3].key, now).found
    /\ Get(cache, wr[1].key, now).found
    /\ Get(cache, wr[2].key, now).found

\* The note of a removal of item id in the step at hand.
NoteOf(id) ==
    [key |-> cache.obj[id].key, value |-> cache.obj[id].value,
     mapped |-> FALSE, size |-> cache.currSize - 1]

\* C24: a step of the capacity loop or of an expiry goroutine that takes an
\* entry out of the store makes one call of onEvict, with the entry's key and
\* value, made when the key is out of the map and the count is one less; a
\* goroutine that removes nothing makes no call; the start of a SetWithTTL,
\* overwriting or not, makes no call; and no other step makes one.
C24_OneNotePerRemoval ==
    [][LET gone == Queued(cache) \ Queued(cache')
       IN  IF Len(wr') = Len(wr) + 1 \/ gone = {}
           THEN notes' = notes
           ELSE \E v \in gone :
                    /\ gone = {v}
                    /\ cache'.items[cache.obj[v].key] = NoId
                    /\ cache'.currSize = cache.currSize - 1
                    /\ notes' = notes (+) SetToBag({NoteOf(v)})]_vars

\* Three writes, one an overwrite, one entry evicted and one removed by its
\* goroutine, every goroutine run: two calls of onEvict, one for the entry
\* evicted, and none for the entry overwritten.
C24_Witness ==
    /\ mu = Free
    /\ Len(wr) = 3
    /\ tasks = {}
    /\ Queued(cache) = {}
    /\ Cardinality(evicted) = 1
    /\ \E k \in CacheKey : \E j \in Written(k) :
        /\ j # LastWrite(k)
        /\ j \notin evicted
        /\ \A n \in BagToSet(notes) : n.value # wr[j].value
    /\ \E n \in BagToSet(notes) : \E v \in evicted : n.value = wr[v].value
    /\ BagCardinality(notes) = 2

\* The handler holds the lock only inside a SetWithTTL of its store loop.
HandlerLockOnlyInSet ==
    /\ mu = "handler" => (hpc = "store" /\ hi <= Len(resBody))
    /\ hpc = "fetch" => mu # "handler"

\* Whoever holds the lock can take its next step, which is a turn of the
\* capacity loop or the release.
LockHolderCanStep ==
    mu # Free => ENABLED (SetEvict \/ ClientSetEnd \/ HSetEnd \/ OtherGetEnd)

\* While the handler waits for its fetch and nobody is inside the critical
\* section, a read and a write of another handler and every expiry goroutine
\* whose sleep is over can enter it.
OthersCanEnterDuringFetch ==
    (hpc = "fetch" /\ mu = Free) =>
        /\ ENABLED OtherGetBegin
        /\ Len(wr) < MaxStores => ENABLED OtherSet
        /\ \A t \in tasks : now >= t.wake => ENABLED Expire(t)

\* C22: the handler holds the lock only inside one SetWithTTL call, never while
\* it waits for the fetch, and its Get finds and leaves the lock free; whoever
\* holds the lock can always go on to release it; and while the handler waits
\* for its fetch the others can enter the critical section.
C22_LockNotHeldAcrossFetch ==
    /\ [](HandlerLockOnlyInSet /\ LockHolderCanStep /\ OthersCanEnterDuringFetch)
    /\ [][calls'.gets = calls.gets + 1 => (mu = Free /\ mu' = Free)]_vars

\* While the handler waits for its fetch, the SetWithTTL of another handler is
\* inside the critical section, in its capacity loop.
C22_Witness ==
    /\ hpc = "fetch"
    /\ mu = "client"
    /\ OverCapacity(cache)
====
